---------------------------- MODULE Spec2Model ----------------------------
(***************************************************************************)
(* Model of src/app2.py: a Streamlit script that reads four widget values  *)
(* (N0, r, K, t_max), refuses the combination r < 0 and K < N0, and        *)
(* otherwise evaluates N(t) = K / (1 + A * e^(-r t)), A = (K - N0) / N0,   *)
(* for t = 0 .. t_max, then renders a table and a chart.  The script is    *)
(* run again from its first line whenever a widget changes.               *)
(*                                                                         *)
(* Numbers.  The script computes in binary floating point with rounding    *)
(* to nearest, ties to even.  The model keeps that arithmetic, with a      *)
(* mantissa of MantBits bits (53 in a double) and with 2^ExpMax as the     *)
(* first power of two that is too large to represent (2^1024 in a          *)
(* double).  The growth rate r is counted in units of ln 2, so that        *)
(* math.exp(-r * t) is the power of two 2^(-r * t); r = 1 stands for       *)
(* r = 0.693..., and the widget's range -5.0 .. 5.0 is about -7 .. 7.      *)
(* Exponents are not bounded below: a double underflows below 2^-1074,     *)
(* far beyond the point where 1.0 + x has already rounded to 1.0.          *)
(***************************************************************************)
EXTENDS Integers, Sequences, FiniteSets, TLC

\* ------------------------------------------------------------ bounds
\* mantissa bits of the floating-point format (a double has 53)
MantBits == 6
\* 2^ExpMax is the least power of two that overflows (2^1024 for a double)
ExpMax == 8
\* largest N0, K, |r| (in units of ln 2) and t_max the model enumerates
MaxN0 == 3
MaxK == 5
MaxR == 2
MaxT == 5

\* ------------------------------------------------------------ widget minima
N0Min == 1
KMin == 1
TMin == 1

\* ------------------------------------------------------------ floating point
RECURSIVE Pow2(_)
Pow2(n) == IF n <= 0 THEN 1 ELSE 2 * Pow2(n - 1)

Abs(x) == IF x < 0 THEN -x ELSE x

\* a float is [k, m, e]: the number m * 2^e with 2^(MantBits-1) <= |m| < 2^MantBits,
\* or zero (m = 0, e = 0), or an infinity (k = "inf", m = 1 or -1)
Zero == [k |-> "num", m |-> 0, e |-> 0]
Inf(s) == [k |-> "inf", m |-> s, e |-> 0]
\* Python's None, as appended to N_values
None == [k |-> "None", m |-> 0, e |-> 0]

\* scale n / d by powers of two until 2^(MantBits-1) <= n / d < 2^MantBits
RECURSIVE Norm(_, _, _)
Norm(n, d, e) ==
  IF n >= d * Pow2(MantBits) THEN Norm(n, 2 * d, e + 1)
  ELSE IF n < d * Pow2(MantBits - 1) THEN Norm(2 * n, d, e - 1)
  ELSE <<n, d, e>>

\* the float nearest to s * (n / d) * 2^e, ties to even; an infinity on overflow
Round(s, n, d, e) ==
  IF n = 0 THEN Zero
  ELSE LET nde == Norm(n, d, e)
           q == nde[1] \div nde[2]
           rem == nde[1] % nde[2]
           up == 2 * rem > nde[2] \/ (2 * rem = nde[2] /\ q % 2 = 1)
           m1 == IF up THEN q + 1 ELSE q
           m == IF m1 = Pow2(MantBits) THEN Pow2(MantBits - 1) ELSE m1
           ex == IF m1 = Pow2(MantBits) THEN nde[3] + 1 ELSE nde[3]
       IN IF ex + MantBits > ExpMax THEN Inf(s)
          ELSE [k |-> "num", m |-> s * m, e |-> ex]

Sgn(x) == IF x.m > 0 THEN 1 ELSE IF x.m < 0 THEN -1 ELSE 0

\* float(n) of a Python int
FromInt(n) == Round(IF n < 0 THEN -1 ELSE 1, Abs(n), 1, 0)

\* n / d of two Python ints (true division, correctly rounded)
FDivInt(n, d) == Round(IF n < 0 THEN -1 ELSE 1, Abs(n), d, 0)

\* a * b
FMul(a, b) ==
  IF a.m = 0 \/ b.m = 0 THEN Zero
  ELSE IF a.k = "inf" \/ b.k = "inf" THEN Inf(Sgn(a) * Sgn(b))
  ELSE Round(Sgn(a) * Sgn(b), Abs(a.m) * Abs(b.m), 1, a.e + b.e)

\* a + b
FAdd(a, b) ==
  IF a.k = "inf" THEN a
  ELSE IF b.k = "inf" THEN b
  ELSE IF a.m = 0 THEN b
  ELSE IF b.m = 0 THEN a
  ELSE LET hi == IF a.e >= b.e THEN a ELSE b
           lo == IF a.e >= b.e THEN b ELSE a
           dlt == hi.e - lo.e
       IN IF dlt >= MantBits + 2 THEN hi
          ELSE LET sum == hi.m * Pow2(dlt) + lo.m
               IN Round(IF sum < 0 THEN -1 ELSE 1, Abs(sum), 1, lo.e)

\* a / b for b # 0
FDiv(a, b) ==
  IF b.k = "inf" THEN Zero
  ELSE IF a.m = 0 THEN Zero
  ELSE Round(Sgn(a) * Sgn(b), Abs(a.m), Abs(b.m), a.e - b.e)

\* x <= 0
FLe0(x) == x.m <= 0

\* a < b on floats (infinities included)
MagLt(a, b) ==
  IF a.k = "inf" THEN FALSE
  ELSE IF b.k = "inf" THEN TRUE
  ELSE a.e < b.e \/ (a.e = b.e /\ Abs(a.m) < Abs(b.m))

FLt(a, b) ==
  IF Sgn(a) # Sgn(b) THEN Sgn(a) < Sgn(b)
  ELSE IF Sgn(a) = 0 THEN FALSE
  ELSE IF Sgn(a) > 0 THEN MagLt(a, b)
  ELSE MagLt(b, a)

FLe(a, b) == ~FLt(b, a)

\* math.exp(x * ln 2) raises OverflowError when 2^x is not representable
ExpOverflows(x) == x >= ExpMax

\* math.exp(x * ln 2) = 2^x otherwise
math_exp(x) == [k |-> "num", m |-> Pow2(MantBits - 1), e |-> x - (MantBits - 1)]

\* ------------------------------------------------------------ state
\* N0, r, K, t_max: the widget values of the current run; pc: the script's position;
\* t_values, A, N_values, denom, df: the script's names; shown: the elements the
\* current run has put on the page, in order; last: a history variable, what the
\* previous run ended with when it was given the same four values (else NoRun)
VARIABLES N0, r, K, t_max, pc, t_values, A, N_values, denom, df, shown, last

vars == <<N0, r, K, t_max, pc, t_values, A, N_values, denom, df, shown, last>>

NoRun == [pc |-> "none", N |-> <<>>, shown |-> <<>>]

\* the values the four number_input widgets can return
N0Range == N0Min .. MaxN0
RRange == (-MaxR) .. MaxR
KRange == KMin .. MaxK
TRange == TMin .. MaxT

\* the script's names before the script has bound them
Unbound ==
  /\ t_values' = <<>>
  /\ A' = None
  /\ N_values' = <<>>
  /\ denom' = None
  /\ df' = <<>>

\* the first run; the widgets' defaults (100, 0.5, 500, 10) lie outside the
\* enumerated ranges, so the first run takes any values a later run can take
Init ==
  /\ N0 \in N0Range
  /\ r \in RRange
  /\ K \in KRange
  /\ t_max \in TRange
  /\ pc = "guard"
  /\ t_values = <<>>
  /\ A = None
  /\ N_values = <<>>
  /\ denom = None
  /\ df = <<>>
  /\ shown = <<>>
  /\ last = NoRun

\* mutant of Invalid: the comparison of K with N0 admits equality
Invalid_OrEqual == r < 0 /\ K <= N0

\* the condition of the validity check
Invalid == r < 0 /\ K < N0

\* if r < 0 and K < N0: st.error(...); st.stop()
Guard ==
  /\ pc = "guard"
  /\ IF Invalid
     THEN /\ shown' = Append(shown, "error")
          /\ pc' = "stopped"
     ELSE /\ shown' = shown
          /\ pc' = "compute"
  /\ UNCHANGED <<N0, r, K, t_max, t_values, A, N_values, denom, df, last>>

\* list(range(int(t_max) + 1))
Range(n) == [i \in 1 .. n |-> i - 1]

\* mutant of Coefficient: the operands of the subtraction are swapped
Coefficient_Swapped == FDivInt(N0 - K, N0)

\* mutant of Coefficient: the quotient is taken by K instead of N0
Coefficient_ByK == FDivInt(K - N0, K)

\* (K - N0) / N0
Coefficient == FDivInt(K - N0, N0)

\* t_values = ...; A = ...; N_values = []
Compute ==
  /\ pc = "compute"
  /\ t_values' = Range(t_max + 1)
  /\ A' = Coefficient
  /\ N_values' = <<>>
  /\ pc' = "loop"
  /\ UNCHANGED <<N0, r, K, t_max, denom, df, shown, last>>

\* mutant of Exponent: the sign of the exponent is lost
Exponent_Positive(t) == r * t

\* the argument of math.exp, in units of ln 2
Exponent(t) == (-r) * t

\* 1.0 + A * math.exp(-r * t)
Denominator(a, t) == FAdd(FromInt(1), FMul(a, math_exp(Exponent(t))))

\* None if denom <= 0 else K / denom
Point(d) == IF FLe0(d) THEN None ELSE FDiv(FromInt(K), d)

\* one pass of the body of `for t in t_values`
LoopStep ==
  /\ pc = "loop"
  /\ Len(N_values) < Len(t_values)
  /\ LET t == t_values[Len(N_values) + 1]
     IN IF ExpOverflows(Exponent(t))
        THEN /\ pc' = "crashed"
             /\ UNCHANGED <<denom, N_values>>
        ELSE /\ denom' = Denominator(A, t)
             /\ N_values' = Append(N_values, Point(Denominator(A, t)))
             /\ pc' = "loop"
  /\ UNCHANGED <<N0, r, K, t_max, t_values, A, df, shown, last>>

\* df = pd.DataFrame({"t": t_values, "N": N_values})
Frame ==
  /\ pc = "loop"
  /\ Len(N_values) = Len(t_values)
  /\ df' = [i \in 1 .. Len(t_values) |-> [t |-> t_values[i], N |-> N_values[i]]]
  /\ pc' = "table"
  /\ UNCHANGED <<N0, r, K, t_max, t_values, A, N_values, denom, shown, last>>

\* st.subheader(...); st.dataframe(...): the table element is put on the page
\* (its "{:.3f}" formatting of N is display only and is not modelled)
Table ==
  /\ pc = "table"
  /\ shown' = Append(shown, "table")
  /\ pc' = "chart"
  /\ UNCHANGED <<N0, r, K, t_max, t_values, A, N_values, denom, df, last>>

\* st.subheader(...); chart = ...; st.altair_chart(...)
Chart ==
  /\ pc = "chart"
  /\ shown' = Append(shown, "chart")
  /\ pc' = "done"
  /\ UNCHANGED <<N0, r, K, t_max, t_values, A, N_values, denom, df, last>>

\* mutant of Rerun: the elements of the earlier run stay on the page
Rerun_KeepsPage ==
  /\ pc \in {"done", "stopped", "crashed"}
  /\ N0' \in N0Range
  /\ r' \in RRange
  /\ K' \in KRange
  /\ t_max' \in TRange
  /\ Unbound
  /\ shown' = shown
  /\ last' = IF <<N0', r', K', t_max'>> = <<N0, r, K, t_max>>
             THEN [pc |-> pc, N |-> N_values, shown |-> shown]
             ELSE NoRun
  /\ pc' = "guard"

\* a widget changes: the script runs again from its first line
Rerun ==
  /\ pc \in {"done", "stopped", "crashed"}
  /\ N0' \in N0Range
  /\ r' \in RRange
  /\ K' \in KRange
  /\ t_max' \in TRange
  /\ Unbound
  /\ shown' = <<>>
  /\ last' = IF <<N0', r', K', t_max'>> = <<N0, r, K, t_max>>
             THEN [pc |-> pc, N |-> N_values, shown |-> shown]
             ELSE NoRun
  /\ pc' = "guard"

Next == Guard \/ Compute \/ LoopStep \/ Frame \/ Table \/ Chart \/ Rerun

Spec == Init /\ [][Next]_vars

\* ------------------------------------------------------------ properties
\* the index set of the points computed so far
Points == 1 .. Len(N_values)

\* the run has ended: the script ran to its last line, stopped, or raised
Ended == pc \in {"done", "stopped", "crashed"}

\* x is N0 up to the rounding of the three operations that produce N(0):
\* |x - N0| <= N0 * (|K - N0| / K + 3) * 2^(-MantBits)
NearN0(x) ==
  /\ x.k = "num"
  /\ x.m > 0
  /\ x.e <= 0
  /\ x.e >= -(2 * MantBits)
  /\ Abs(x.m - N0 * Pow2(-x.e)) * K * Pow2(MantBits)
       <= N0 * (Abs(K - N0) + 3 * K) * Pow2(-x.e)

\* C1: for every parameter combination that passes the guard, the evaluation
\* produces exactly t_max + 1 points with t = 0, 1, ..., t_max, and N_values is as
\* long as t_values.
C1_SeriesComplete ==
  (Ended /\ ~(r < 0 /\ K < N0)) =>
    /\ pc = "done"
    /\ Len(df) = t_max + 1
    /\ \A i \in 1 .. Len(df) : df[i].t = i - 1
    /\ Len(N_values) = Len(t_values)

\* C2: whenever r < 0 and K < N0 the run shows the error and stops before any
\* point is computed, with no table and no chart; and the error is shown only
\* when r < 0 and K < N0.
C2_GuardStops ==
  /\ (r < 0 /\ K < N0) =>
       /\ pc \in {"guard", "stopped"}
       /\ t_values = <<>> /\ N_values = <<>> /\ df = <<>> /\ A = None /\ denom = None
       /\ shown = (IF pc = "stopped" THEN <<"error">> ELSE <<>>)
  /\ (pc = "stopped" \/ \E i \in 1 .. Len(shown) : shown[i] = "error") =>
       (r < 0 /\ K < N0)

C2_Witness ==
  pc = "stopped" /\ r < 0 /\ K < N0 /\ shown = <<"error">> /\ N_values = <<>>

\* C3: the error of the guard is the only error: for every combination with
\* r >= 0 or K >= N0 the loop runs to its end without raising, and the run goes
\* on to the table and then the chart.
C3_OnlyDomainError ==
  /\ pc # "crashed"
  /\ (Ended /\ ~(r < 0 /\ K < N0)) => (pc = "done" /\ shown = <<"table", "chart">>)

\* C4: for every combination that passes the guard the denominator is strictly
\* positive at every t the loop evaluates, so no point is None.
C4_DenomPositive ==
  /\ \A i \in Points : N_values[i] # None
  /\ Len(N_values) > 0 => ~FLe0(denom)
  /\ ~(r < 0 /\ K < N0) =>
       \A t \in 0 .. t_max :
         ~ExpOverflows(Exponent(t)) => ~FLe0(Denominator(Coefficient, t))

C4_Witness ==
  /\ pc = "done" /\ r > 0 /\ K < N0
  /\ Len(N_values) = t_max + 1
  /\ FLt(denom, FromInt(1))
  /\ \A i \in Points : N_values[i].k = "num"

\* C5 (as claimed): the first point is t = 0 with N(0) = N0.
C5_FirstPointExact ==
  Len(N_values) >= 1 => (t_values[1] = 0 /\ N_values[1] = FromInt(N0))

\* C5 (amended): the first point is t = 0, and N(0) is N0 up to rounding,
\* |N(0) - N0| <= N0 * (|K - N0| / K + 3) * 2^(-MantBits), exactly N0 when
\* K = N0, and the same value for every r.
C5_FirstPointNear ==
  Len(N_values) >= 1 =>
    /\ t_values[1] = 0
    /\ NearN0(N_values[1])
    /\ (K = N0 => N_values[1] = FromInt(N0))
    /\ N_values[1] = FDiv(FromInt(K), FAdd(FromInt(1), FDivInt(K - N0, N0)))

C5_Witness ==
  /\ Len(N_values) >= 1
  /\ N_values[1] # FromInt(N0)
  /\ NearN0(N_values[1])

\* C6 (as claimed): if r > 0 and K > N0 then N0 < N(t) < K for every t and
\* N(t) < N(t+1).
C6_StrictGrowth ==
  (r > 0 /\ K > N0) =>
    \A i \in Points :
      /\ FLt(FromInt(N0), N_values[i])
      /\ FLt(N_values[i], FromInt(K))
      /\ (i < Len(N_values) => FLt(N_values[i], N_values[i + 1]))

\* C6 (amended): if r > 0 and K > N0 then the values never decrease and never
\* exceed K: N(0) <= N(t) <= N(t+1) <= K.
C6_Growth ==
  (r > 0 /\ K > N0) =>
    /\ pc \notin {"stopped", "crashed"}
    /\ \A i \in Points :
         /\ N_values[i].k = "num"
         /\ FLe(N_values[1], N_values[i])
         /\ FLe(N_values[i], FromInt(K))
         /\ (i < Len(N_values) => FLe(N_values[i], N_values[i + 1]))

\* a run with r > 0 and K > N0 that first grows and then sits at K
C6_Witness ==
  /\ pc = "done" /\ r > 0 /\ K > N0
  /\ FLt(N_values[1], N_values[2])
  /\ N_values[Len(N_values)] = FromInt(K)
  /\ N_values[Len(N_values) - 1] = FromInt(K)

\* C7: if r < 0 and K > N0 the guard does not trip, the evaluation succeeds with
\* t_max + 1 points, and the values decrease and stay positive.
C7_Decay ==
  (r < 0 /\ K > N0) =>
    /\ pc \notin {"stopped", "crashed"}
    /\ (Ended => Len(N_values) = t_max + 1)
    /\ \A i \in Points :
         /\ FLt(Zero, N_values[i])
         /\ (i < Len(N_values) => FLt(N_values[i + 1], N_values[i]))

\* C8: what a run ends with is a function of (N0, r, K, t_max) alone: a run
\* given the values of the run before it ends as that run did, and every run,
\* whatever ran before it, starts with nothing bound and nothing shown and ends
\* with the points the formula gives for its own four values.
C8_Pure ==
  /\ (Ended /\ last # NoRun) =>
       last = [pc |-> pc, N |-> N_values, shown |-> shown]
  /\ pc = "guard" =>
       /\ t_values = <<>> /\ N_values = <<>> /\ df = <<>>
       /\ A = None /\ denom = None /\ shown = <<>>
  /\ \A i \in Points : N_values[i] = Point(Denominator(Coefficient, i - 1))
  /\ pc = "done" =>
       /\ Len(N_values) = t_max + 1
       /\ df = [i \in 1 .. t_max + 1 |-> [t |-> i - 1, N |-> N_values[i]]]
       /\ shown = <<"table", "chart">>
  /\ pc = "crashed" =>
       /\ shown = <<>>
       /\ ExpOverflows(Exponent(Len(N_values)))
       /\ \A t \in 0 .. Len(N_values) - 1 : ~ExpOverflows(Exponent(t))
  /\ pc = "stopped" => (N_values = <<>> /\ shown = <<"error">>)

\* a second run with the values of the first has ended with its points
C8_Witness ==
  /\ pc = "done"
  /\ last # NoRun
  /\ last.pc = "done"
  /\ Len(last.N) = t_max + 1
  /\ r # 0 /\ K # N0

=============================================================================
